---- MODULE Spec2Model ----
(***************************************************************************)
(* sns-auto-publisher: the batch driver main() of src/index.ts with the    *)
(* Google Drive service (fetchFilePairs, downloadVideo, updateJsonStatus,  *)
(* getVideoShareLink, moveFilesToDone, cleanupTmpFiles), the four          *)
(* publishers, the notifier and the environment loader.                    *)
(*                                                                         *)
(* Durable state (Google Drive, the tmp directory, the environment)        *)
(* outlives a process run; everything else belongs to one run of main().   *)
(* A run can be followed by another run (the batch is scheduled            *)
(* repeatedly), and a run can be killed at any step (Crash).               *)
(***************************************************************************)
EXTENDS Integers, Sequences, FiniteSets, TLC

\* ------------------------------------------------------------------ bounds
\* number of video/JSON pairs that exist on Google Drive
NItems == 2
\* longest outcome list handed to isAllSuccess in SpecAllSuccess
MaxResults == 4
\* most files of one kind (mp4, JSON) in the pending folder in SpecPairing
MaxFiles == 2

Items == 1..NItems

\* ------------------------------------------------------------- data model
\* types/index.ts: Platform, in the order main() calls the publishers
Platforms == <<"youtube", "tiktok", "instagram", "x">>

PlatformSet == {Platforms[k] : k \in 1..Len(Platforms)}

\* types/index.ts: UploadStatus, one boolean per platform
UploadStatus == [PlatformSet -> BOOLEAN]

AllFalse == [p \in PlatformSet |-> FALSE]

AllTrue == [p \in PlatformSet |-> TRUE]

\* upload_status values a JSON file holds when it is put in the pending folder
InitStatuses == {AllFalse, AllTrue}

\* types/index.ts: UploadResult (error: whether an error text is present)
UploadResult == [platform : PlatformSet, success : BOOLEAN, skipped : BOOLEAN, error : BOOLEAN]

\* config/env.ts: the variables read with getRequiredEnv
RequiredKeys ==
    {"GDRIVE_CREDENTIALS_JSON", "GDRIVE_PENDING_FOLDER_ID", "GDRIVE_DONE_FOLDER_ID",
     "YOUTUBE_CLIENT_ID", "YOUTUBE_CLIENT_SECRET", "YOUTUBE_REFRESH_TOKEN",
     "TIKTOK_CLIENT_KEY", "TIKTOK_CLIENT_SECRET", "TIKTOK_REFRESH_TOKEN",
     "IG_ACCESS_TOKEN", "IG_ACCOUNT_ID", "MAIL_USER", "MAIL_PASS", "MAIL_TO"}

\* config/env.ts: the variables read with getOptionalEnv in loadXConfig
XKeys == {"X_API_KEY", "X_API_SECRET", "X_ACCESS_TOKEN", "X_ACCESS_TOKEN_SECRET"}

AllKeys == RequiredKeys \cup XKeys

\* process.env restricted to the variables the program reads: each is absent,
\* set to a blank string, or set to a value
EnvOf(valued, blank) ==
    [k \in AllKeys |-> IF k \in valued THEN "value" ELSE IF k \in blank THEN "blank" ELSE "absent"]

\* environments the batch is started with: complete, X partly configured (one
\* key set, one blank, two absent), a required variable blank
EnvChoices ==
    {EnvOf(AllKeys, {}),
     EnvOf(RequiredKeys \cup {"X_API_KEY"}, {"X_API_SECRET"}),
     EnvOf(AllKeys \ {"MAIL_TO"}, {"MAIL_TO"})}

\* JavaScript values a field of a parsed JSON file can hold, by kind: an absent
\* field reads as undefined; "empty" is the string of length 0, "string" any other
\* string, "zero" the number 0, "number" any other number
JsValues ==
    {"undefined", "null", "true", "false", "empty", "string", "zero", "number", "array", "object"}

\* !v of JavaScript
Falsy(v) == v \in {"undefined", "null", "false", "empty", "zero"}

\* typeof v of JavaScript
TypeOf(v) ==
    CASE v = "undefined" -> "undefined"
      [] v \in {"true", "false"} -> "boolean"
      [] v \in {"empty", "string"} -> "string"
      [] v \in {"zero", "number"} -> "number"
      [] v \in {"null", "array", "object"} -> "object"

\* Array.isArray(v)
IsArray(v) == v = "array"

\* the four fields of a parsed JSON file that fetchJsonContent tests
JsonData ==
    [title : {"undefined", "empty", "string", "number"},
     description : {"undefined", "empty", "string", "number"},
     tags : {"undefined", "string", "array"},
     upload_status : {"undefined", "null", "string", "object"}]

WellFormed ==
    [title |-> "string", description |-> "string", tags |-> "array", upload_status |-> "object"]

\* records that differ from a well-formed one in exactly one field
Malformed == {d \in JsonData : Cardinality({f \in DOMAIN d : d[f] # WellFormed[f]}) = 1}

\* contents of the JSON files put in the pending folder: every file well formed,
\* or exactly one file malformed
DataChoices ==
    {[i \in Items |-> WellFormed]}
    \cup {[i \in Items |-> IF i = m THEN d ELSE WellFormed] : m \in Items, d \in Malformed}

\* values the fields of upload_status hold in a parsed JSON file
FlagValues == {"true", "false", "undefined", "string"}

NoFlags == [p \in PlatformSet |-> "undefined"]

\* parsed JSON files handed to the validation of fetchJsonContent: the four tested
\* fields and, when upload_status is an object, the fields of that object
ParsedRecords ==
    {[fields |-> d, flags |-> f] :
        d \in {e \in JsonData : e.upload_status = "object"}, f \in [PlatformSet -> FlagValues]}
    \cup {[fields |-> d, flags |-> NoFlags] : d \in {e \in JsonData : e.upload_status # "object"}}

\* fetchJsonContent is not running
NoData == [fields |-> WellFormed, flags |-> NoFlags]

\* file names of the pending folder: a base name and an extension as written
FileNames == [base : {"a", "b"}, ext : {"mp4", "MP4", "json", "JSON"}]

\* fetchFilePairs is not running
NoListing == [mp4Files |-> <<>>, jsonFiles |-> <<>>]

\* services/instagram.ts: const MAX_STATUS_CHECKS = 60
MAX_STATUS_CHECKS == 60

\* services/instagram.ts: const STATUS_CHECK_INTERVAL = 5000 (milliseconds)
STATUS_CHECK_INTERVAL == 5000

\* uploadToInstagram at the start of its try block: the loop counter i, the flag
\* isReady, the time slept, and what has been done with the Graph API
NoIg ==
    [i |-> 0, isReady |-> FALSE, slept |-> 0, container |-> FALSE, checks |-> 0,
     statusCode |-> "none", publishCalls |-> 0, published |-> FALSE]

\* the largest number of publications of one platform the history tells apart
MaxPubs == 2

\* the history of publications when it is not kept.  When it is kept (on), count
\* is the number of results success=true, skipped=false each publisher returned
\* for the pair since the pair was put in the pending folder, and lost tells
\* whether a publication was not followed by a completed updateJsonStatus
NoPubs ==
    [on |-> FALSE, count |-> [p \in PlatformSet |-> 0], lost |-> [p \in PlatformSet |-> FALSE]]

\* the history after a publisher returned r
Counted(h, r) ==
    IF h.on /\ r.success /\ ~r.skipped
    THEN [h EXCEPT !.count[r.platform] = IF @ < MaxPubs THEN @ + 1 ELSE @]
    ELSE h

\* the history after the updateJsonStatus call for platform p did not complete
WriteLost(h, p) == IF h.on THEN [h EXCEPT !.lost[p] = TRUE] ELSE h

NoConfig == [loaded |-> FALSE, x |-> FALSE, isXEnabled |-> FALSE]

Unset == "unset"

VARIABLES
    env,            \* process.env: variable name -> "absent" | "blank" | "value"
    videoLoc,       \* Drive folder of each item's mp4 file: "pending" | "done"
    jsonLoc,        \* Drive folder of each item's JSON file
    drive_status,   \* upload_status stored in each item's JSON file on Drive
    drive_data,     \* kinds of value of the fields of each item's JSON file that fetchJsonContent tests
    tmpDir,         \* TRUE when the local tmp directory exists
    pc,             \* position of the process in main()
    config,         \* AppConfig returned by loadConfig (x: non-null, isXEnabled)
    filePairs,      \* the for loop's iterator: the fetched pairs from the current one on
    idx,            \* position of the current pair in the list fetchFilePairs returned
    videoPath,      \* TRUE once downloadVideo returned a local path
    results,        \* UploadResult[] of the current pair
    judged,         \* TRUE once Phase 4 computed allSuccess for the current pair
    allSuccess,     \* the boolean computed in Phase 4 (FALSE until then)
    exitCode,       \* exit status of the process, read when pc = "exited"
    currentMetadata, \* the object main() updates; see the note at NoMetadata
    apiCalls,       \* platforms whose API was really called for the current pair
    writes,         \* updateJsonStatus calls issued for the current pair
    moves,          \* moveFilesToDone calls issued for the current pair
    mails,          \* sendResultEmail calls issued for the current pair
    mailFailed,     \* TRUE when sendResultEmail logged a failed send for the current pair
    endKind,        \* how the current pair's try block ended: Unset | "ok" | "caught"
    thrownBy,       \* the call whose exception the per-pair or the outer catch block caught
    cleanups,       \* cleanupTmpFiles calls of this run
    data,           \* const data = JSON.parse(response.data) inside fetchJsonContent
    listed,         \* mp4Files and jsonFiles inside fetchFilePairs: the two files.list results
    ig,             \* locals of uploadToInstagram while its try block runs
    pubs            \* history: publications of the pending pair over all runs (see NoPubs)

vars ==
    <<env, videoLoc, jsonLoc, drive_status, drive_data, tmpDir, pc, config, filePairs, idx,
      videoPath, results, judged, allSuccess, exitCode, currentMetadata, apiCalls, writes,
      moves, mails, mailFailed, endKind, thrownBy, cleanups, data, listed, ig, pubs>>

durable == <<env, videoLoc, jsonLoc, drive_status, drive_data>>

itemLocal ==
    <<videoPath, results, judged, allSuccess, currentMetadata, apiCalls, writes, moves, mails, mailFailed, endKind,
      thrownBy>>

\* ------------------------------------------------------------ config/env.ts
\* getRequiredEnv that accepts a blank value
getRequiredEnvThrowsOnAbsentOnly(e, key) == e[key] = "absent"

\* getRequiredEnv throws when the variable is absent or blank
getRequiredEnvThrows(e, key) == e[key] \in {"absent", "blank"}

\* getOptionalEnv: TRUE when it returns a string, FALSE when it returns undefined
getOptionalEnv(e, key) == ~(e[key] \in {"absent", "blank"})

\* loadXConfig that returns a config as soon as one of the four keys is set
loadXConfigAnyKey(e) ==
    \/ getOptionalEnv(e, "X_API_KEY")
    \/ getOptionalEnv(e, "X_API_SECRET")
    \/ getOptionalEnv(e, "X_ACCESS_TOKEN")
    \/ getOptionalEnv(e, "X_ACCESS_TOKEN_SECRET")

\* loadXConfig: TRUE when it returns an XConfig, FALSE when it returns null
loadXConfig(e) ==
    /\ getOptionalEnv(e, "X_API_KEY")
    /\ getOptionalEnv(e, "X_API_SECRET")
    /\ getOptionalEnv(e, "X_ACCESS_TOKEN")
    /\ getOptionalEnv(e, "X_ACCESS_TOKEN_SECRET")

\* loadConfig throws when one of the load*Config calls hits a missing required variable
loadConfigThrows(e) == \E key \in RequiredKeys : getRequiredEnvThrows(e, key)

\* loadConfig: the AppConfig fields the driver reads
loadConfig(e) ==
    LET x == loadXConfig(e)
    IN  [loaded |-> TRUE, x |-> x, isXEnabled |-> (x # FALSE)]

\* ---------------------------------------------------------------- index.ts
RECURSIVE isAllSuccessFrom(_, _, _)
\* the for loop of isAllSuccess, from position i of results
isAllSuccessFrom(rs, isXEnabled, i) ==
    IF i > Len(rs) THEN TRUE
    ELSE IF rs[i].skipped THEN isAllSuccessFrom(rs, isXEnabled, i + 1)
    ELSE IF rs[i].platform = "x" /\ ~isXEnabled THEN isAllSuccessFrom(rs, isXEnabled, i + 1)
    ELSE IF ~rs[i].success THEN FALSE
    ELSE isAllSuccessFrom(rs, isXEnabled, i + 1)

\* isAllSuccess without the X-disabled clause: X is judged like the other platforms
isAllSuccessNoXClause(rs, isXEnabled) == isAllSuccessFrom(rs, TRUE, 1)

isAllSuccess(rs, isXEnabled) == isAllSuccessFrom(rs, isXEnabled, 1)

\* --------------------------------------------------------------- publishers
\* The three results a publisher returns.  api: whether the platform API was called.
SkipDone(p) == [result |-> [platform |-> p, success |-> TRUE, skipped |-> TRUE, error |-> FALSE], api |-> FALSE]

SkipDisabled(p) == [result |-> [platform |-> p, success |-> FALSE, skipped |-> TRUE, error |-> FALSE], api |-> FALSE]

\* a publisher whose catch block reports the attempt as a success
AttemptSuccessOnError(p, apiOk) ==
    [result |-> [platform |-> p, success |-> TRUE, skipped |-> FALSE, error |-> ~apiOk], api |-> TRUE]

Attempt(p, apiOk) ==
    [result |-> [platform |-> p, success |-> apiOk, skipped |-> FALSE, error |-> ~apiOk], api |-> TRUE]

\* uploadToYouTube without the already-uploaded check
uploadToYouTubeNoSkip(metadata, apiOk) == Attempt("youtube", apiOk)

\* services/youtube.ts.  apiOk: videos.insert returns (TRUE) or throws (FALSE)
uploadToYouTube(metadata, apiOk) ==
    IF metadata.upload_status["youtube"] THEN SkipDone("youtube")
    ELSE Attempt("youtube", apiOk)

\* uploadToTikTok without the already-uploaded check
uploadToTikTokNoSkip(metadata, apiOk) == Attempt("tiktok", apiOk)

\* services/tiktok.ts.  apiOk: token, init and upload all succeed, or one throws
uploadToTikTok(metadata, apiOk) ==
    IF metadata.upload_status["tiktok"] THEN SkipDone("tiktok")
    ELSE Attempt("tiktok", apiOk)

\* uploadToInstagram without the already-uploaded check
uploadToInstagramNoSkip(metadata, apiOk) == Attempt("instagram", apiOk)

\* services/instagram.ts.  apiOk: container, FINISHED status and publish, or a throw
uploadToInstagram(metadata, apiOk) ==
    IF metadata.upload_status["instagram"] THEN SkipDone("instagram")
    ELSE Attempt("instagram", apiOk)

\* uploadToX without the disabled check: with X disabled the API call is made
\* without credentials and fails
uploadToXNoDisabledCheck(xConfig, isXEnabled, metadata, apiOk) ==
    IF metadata.upload_status["x"] THEN SkipDone("x")
    ELSE Attempt("x", apiOk /\ isXEnabled /\ xConfig)

\* uploadToX with its two early returns in the other order
uploadToXDoneFirst(xConfig, isXEnabled, metadata, apiOk) ==
    IF metadata.upload_status["x"] THEN SkipDone("x")
    ELSE IF ~isXEnabled \/ ~xConfig THEN SkipDisabled("x")
    ELSE Attempt("x", apiOk)

\* services/x.ts.  xConfig: config.x is non-null
uploadToX(xConfig, isXEnabled, metadata, apiOk) ==
    IF ~isXEnabled \/ ~xConfig THEN SkipDisabled("x")
    ELSE IF metadata.upload_status["x"] THEN SkipDone("x")
    ELSE Attempt("x", apiOk)

\* ----------------------------------------------------------- services/drive.ts
RECURSIVE fetchFilePairsFrom(_, _, _, _)
\* the for loop of fetchFilePairs over the mp4 files, in createdTime order: an mp4
\* of the pending folder is paired with the JSON file of the same base name when
\* that file is in the pending folder too; its content is read by fetchJsonContent
fetchFilePairsFrom(i, vLoc, jLoc, status) ==
    IF i > NItems THEN <<>>
    ELSE IF vLoc[i] = "pending" /\ jLoc[i] = "pending"
         THEN <<[videoFileId |-> i, jsonFileId |-> i,
                 metadata |-> [upload_status |-> status[i]]]>>
              \o fetchFilePairsFrom(i + 1, vLoc, jLoc, status)
         ELSE fetchFilePairsFrom(i + 1, vLoc, jLoc, status)

fetchFilePairs(vLoc, jLoc, status) == fetchFilePairsFrom(1, vLoc, jLoc, status)

\* fetchJsonContent throws: one of its four validations fails
fetchJsonContentThrows(d) ==
    \/ Falsy(d.title) \/ TypeOf(d.title) # "string"
    \/ Falsy(d.description) \/ TypeOf(d.description) # "string"
    \/ ~IsArray(d.tags)
    \/ Falsy(d.upload_status) \/ TypeOf(d.upload_status) # "object"

\* fetchFilePairs throws out of its for loop: fetchJsonContent is awaited there
\* with no try around it, for every mp4 of the pending folder that has its JSON
fetchFilePairsThrows(vLoc, jLoc, content) ==
    \E i \in Items :
        /\ vLoc[i] = "pending"
        /\ jLoc[i] = "pending"
        /\ fetchJsonContentThrows(content[i])

\* the extension in lower case, as the i flag of the two regular expressions reads it
Lower(ext) == IF ext \in {"mp4", "MP4"} THEN "mp4" ELSE "json"

\* name.replace(/\.mp4$/i, '') with e = "mp4", name.replace(/\.json$/i, '') with e = "json"
StripExt(name, e) ==
    IF Lower(name.ext) = e THEN name.base ELSE name.base \o "." \o name.ext

\* jsonFiles.find(...): positions of the JSON files whose stripped name is baseName
MatchingJson(jsonFiles, baseName) ==
    {j \in 1..Len(jsonFiles) : StripExt(jsonFiles[j].name, "json") = baseName}

RECURSIVE pairFilesFrom(_, _, _)
\* the for loop of fetchFilePairs over mp4Files from position i on: find returns
\* the first JSON file that matches, and an mp4 without a match is skipped
pairFilesFrom(mp4Files, jsonFiles, i) ==
    IF i > Len(mp4Files) THEN <<>>
    ELSE LET matches == MatchingJson(jsonFiles, StripExt(mp4Files[i].name, "mp4"))
         IN  IF matches # {}
             THEN <<[videoFileId |-> mp4Files[i].id,
                     jsonFileId |-> jsonFiles[CHOOSE j \in matches : \A k \in matches : j <= k].id,
                     metadata |-> [upload_status |-> AllFalse]]>>
                  \o pairFilesFrom(mp4Files, jsonFiles, i + 1)
             ELSE pairFilesFrom(mp4Files, jsonFiles, i + 1)

\* updateJsonStatus whose files.update carries no new content
updateJsonStatusStale(stored, updatedMetadata) == stored

\* updateJsonStatus: the content of the JSON file after files.update returned
updateJsonStatus(stored, updatedMetadata) == updatedMetadata.upload_status

\* ---------------------------------------------------------- main(), helpers
\* const currentMetadata = { ...filePair.metadata } is a shallow copy: its
\* upload_status is the very object of filePair.metadata, so the assignments of
\* main() change both.  After that line main() and its callees read the flags
\* through currentMetadata only (moveFilesToDone and getVideoShareLink read the
\* file ids, batchResult takes metadata: currentMetadata), so the shared object is
\* kept once, in currentMetadata, and filePairs keeps the value fetchFilePairs
\* returned.  NoMetadata stands for currentMetadata outside a pair's processing.
NoMetadata == [upload_status |-> AllFalse]

\* for (const filePair of filePairs): the pair the loop is at.  The pairs the
\* loop has left are never read again and are not kept.
filePair == Head(filePairs)

\* upload_status the current pair had when fetchFilePairs read its JSON file
loaded == filePair.metadata.upload_status

\* main() without the call of uploadToX: Phase 4 follows Instagram
NextAfterWithoutX(p) ==
    CASE p = "youtube" -> "tiktok"
      [] p = "tiktok" -> "share"
      [] p = "instagram" -> "phase4"
      [] p = "x" -> "phase4"

\* the statement that follows the handling of publisher p's result
NextAfter(p) ==
    CASE p = "youtube" -> "tiktok"
      [] p = "tiktok" -> "share"
      [] p = "instagram" -> "x"
      [] p = "x" -> "phase4"

WritePcs == {"write_youtube", "write_tiktok", "write_instagram", "write_x"}

WritePc(p) == "write_" \o p

\* the platform whose flag the pending updateJsonStatus call persists
WritePlatform == CHOOSE p \in PlatformSet : WritePc(p) = pc

ResetItem ==
    /\ videoPath' = FALSE
    /\ results' = <<>>
    /\ judged' = FALSE
    /\ allSuccess' = FALSE
    /\ currentMetadata' = NoMetadata
    /\ apiCalls' = <<>>
    /\ writes' = 0
    /\ moves' = 0
    /\ mails' = 0
    /\ mailFailed' = FALSE
    /\ endKind' = Unset
    /\ thrownBy' = Unset

\* head of the for loop: the pair at position i, pairs being the list from it on
BeginItem(i, pairs) ==
    /\ idx' = i
    /\ filePairs' = pairs
    /\ pc' = "download"
    /\ videoPath' = FALSE
    /\ results' = <<>>
    /\ judged' = FALSE
    /\ allSuccess' = FALSE
    /\ currentMetadata' = Head(pairs).metadata
    /\ apiCalls' = <<>>
    /\ writes' = 0
    /\ moves' = 0
    /\ mails' = 0
    /\ mailFailed' = FALSE
    /\ endKind' = Unset
    /\ thrownBy' = Unset

\* no per-pair try: the exception reaches the outer catch of main()
CaughtByOuterCatch(call) ==
    /\ endKind' = "caught"
    /\ thrownBy' = call
    /\ pc' = "fatal"

\* the catch block of the per-pair try: log and go on with the loop
Caught(call) ==
    /\ endKind' = "caught"
    /\ thrownBy' = call
    /\ pc' = "item_end"

\* an exception thrown outside the per-pair try: the outer catch of main()
CaughtOutside(call) ==
    /\ thrownBy' = call
    /\ pc' = "fatal"
    /\ UNCHANGED <<videoPath, results, judged, allSuccess, currentMetadata, apiCalls, writes,
                   moves, mails, mailFailed, endKind>>

\* the try block goes on: nothing is caught
NotCaught == UNCHANGED <<endKind, thrownBy>>

HandleResultFrame ==
    /\ pubs' = Counted(pubs, results'[Len(results')])
    /\ UNCHANGED <<ig, listed, data, durable, tmpDir, config, filePairs, idx, videoPath, judged, allSuccess,
                exitCode, writes, moves, mails, mailFailed, endKind, thrownBy, cleanups>>

\* HandleResult that gives up the remaining publishers after a failure
HandleResultStopOnFailure(p, r) ==
    /\ results' = Append(results, r.result)
    /\ apiCalls' = IF r.api THEN Append(apiCalls, p) ELSE apiCalls
    /\ IF r.result.success /\ ~r.result.skipped
       THEN /\ currentMetadata' = [currentMetadata EXCEPT !.upload_status[p] = TRUE]
            /\ pc' = WritePc(p)
       ELSE /\ currentMetadata' = currentMetadata
            /\ pc' = IF r.result.skipped THEN NextAfter(p) ELSE "phase4"
    /\ HandleResultFrame

\* HandleResult that sets the flag in memory and goes on without updateJsonStatus
HandleResultNoWrite(p, r) ==
    /\ results' = Append(results, r.result)
    /\ apiCalls' = IF r.api THEN Append(apiCalls, p) ELSE apiCalls
    /\ currentMetadata' = IF r.result.success /\ ~r.result.skipped
                          THEN [currentMetadata EXCEPT !.upload_status[p] = TRUE]
                          ELSE currentMetadata
    /\ pc' = NextAfter(p)
    /\ HandleResultFrame

\* HandleResult whose test is (r.success) alone: a skip of a published platform
\* is persisted again
HandleResultOnAnySuccess(p, r) ==
    /\ results' = Append(results, r.result)
    /\ apiCalls' = IF r.api THEN Append(apiCalls, p) ELSE apiCalls
    /\ IF r.result.success
       THEN /\ currentMetadata' = [currentMetadata EXCEPT !.upload_status[p] = TRUE]
            /\ pc' = WritePc(p)
       ELSE /\ currentMetadata' = currentMetadata
            /\ pc' = NextAfter(p)
    /\ HandleResultFrame

\* HandleResult whose test is (!r.skipped) alone: a failure is marked as published
HandleResultOnAnyAttempt(p, r) ==
    /\ results' = Append(results, r.result)
    /\ apiCalls' = IF r.api THEN Append(apiCalls, p) ELSE apiCalls
    /\ IF ~r.result.skipped
       THEN /\ currentMetadata' = [currentMetadata EXCEPT !.upload_status[p] = TRUE]
            /\ pc' = WritePc(p)
       ELSE /\ currentMetadata' = currentMetadata
            /\ pc' = NextAfter(p)
    /\ HandleResultFrame

\* results.push(r) and the if that follows it, for publisher p
HandleResult(p, r) ==
    /\ results' = Append(results, r.result)
    /\ apiCalls' = IF r.api THEN Append(apiCalls, p) ELSE apiCalls
    /\ IF r.result.success /\ ~r.result.skipped
       THEN /\ currentMetadata' = [currentMetadata EXCEPT !.upload_status[p] = TRUE]
            /\ pc' = WritePc(p)
       ELSE /\ currentMetadata' = currentMetadata
            /\ pc' = NextAfter(p)
    /\ HandleResultFrame

\* ------------------------------------------------------------------ actions
Init ==
    /\ env \in EnvChoices
    /\ videoLoc = [i \in Items |-> "pending"]
    /\ jsonLoc = [i \in Items |-> "pending"]
    /\ drive_status \in [Items -> InitStatuses]
    /\ drive_data \in DataChoices
    /\ tmpDir = FALSE
    /\ pc = "idle"
    /\ config = NoConfig
    /\ filePairs = <<>>
    /\ idx = 0
    /\ videoPath = FALSE
    /\ results = <<>>
    /\ judged = FALSE
    /\ allSuccess = FALSE
    /\ exitCode = 0
    /\ currentMetadata = NoMetadata
    /\ apiCalls = <<>>
    /\ writes = 0
    /\ moves = 0
    /\ mails = 0
    /\ mailFailed = FALSE
    /\ endKind = Unset
    /\ thrownBy = Unset
    /\ cleanups = 0
    /\ data = NoData
    /\ listed = NoListing
    /\ ig = NoIg
    /\ pubs = NoPubs

\* the process is started: main() is entered
StartRun ==
    /\ pc \in {"idle", "exited", "crashed"}
    /\ pc' = "loadConfig"
    /\ config' = NoConfig
    /\ filePairs' = <<>>
    /\ idx' = 0
    /\ exitCode' = 0
    /\ cleanups' = 0
    /\ ResetItem
    /\ UNCHANGED <<pubs, ig, listed, data, durable, tmpDir>>

\* Phase 1: const config = loadConfig()
LoadConfig ==
    /\ pc = "loadConfig"
    /\ IF loadConfigThrows(env)
       THEN /\ CaughtOutside("loadConfig")
            /\ config' = config
       ELSE /\ pc' = "fetch"
            /\ config' = loadConfig(env)
            /\ UNCHANGED itemLocal
    /\ UNCHANGED <<pubs, ig, listed, data, durable, tmpDir, filePairs, idx, exitCode, cleanups>>

\* Phase 2: const filePairs = await fetchFilePairs(config.drive), and the
\* early return on an empty list.  createDriveClient or files.list can throw,
\* and fetchJsonContent throws on a malformed record.
FetchFilePairs ==
    /\ pc = "fetch"
    /\ \E outcome \in {"ok", "clientThrows", "listThrows"} :
        CASE outcome = "clientThrows" ->
                /\ CaughtOutside("createDriveClient")
                /\ UNCHANGED <<tmpDir, filePairs, idx>>
          [] outcome = "listThrows" ->
                /\ tmpDir' = TRUE
                /\ CaughtOutside("files.list")
                /\ UNCHANGED <<filePairs, idx>>
          [] outcome = "ok" ->
                IF fetchFilePairsThrows(videoLoc, jsonLoc, drive_data)
                THEN /\ tmpDir' = TRUE
                     /\ CaughtOutside("fetchJsonContent")
                     /\ UNCHANGED <<filePairs, idx>>
                ELSE LET pairs == fetchFilePairs(videoLoc, jsonLoc, drive_status)
                     IN  /\ tmpDir' = TRUE
                         /\ IF Len(pairs) = 0
                            THEN /\ pc' = "finally"
                                 /\ UNCHANGED <<filePairs, idx, itemLocal>>
                            ELSE BeginItem(1, pairs)
    /\ UNCHANGED <<pubs, ig, listed, data, durable, config, exitCode, cleanups>>

\* videoPath = await downloadVideo(config.drive, filePair)
DownloadVideo ==
    /\ pc = "download"
    /\ \E ok \in BOOLEAN :
        IF ok
        THEN /\ videoPath' = TRUE
             /\ tmpDir' = TRUE
             /\ pc' = "youtube"
             /\ NotCaught
        ELSE /\ Caught("downloadVideo")
             /\ UNCHANGED <<videoPath, tmpDir>>
    /\ UNCHANGED <<pubs, ig, listed, data, durable, config, filePairs, idx, results, judged, allSuccess, exitCode,
                   currentMetadata, apiCalls, writes, moves, mails, mailFailed, cleanups>>

\* 3-1: uploadToYouTube, results.push, and the test of its result
UploadYouTube ==
    /\ pc = "youtube"
    /\ \E apiOk \in BOOLEAN : HandleResult("youtube", uploadToYouTube(currentMetadata, apiOk))

\* 3-2: uploadToTikTok
UploadTikTok ==
    /\ pc = "tiktok"
    /\ \E apiOk \in BOOLEAN : HandleResult("tiktok", uploadToTikTok(currentMetadata, apiOk))

\* the share link step with a try/catch of its own: a failure is logged and the
\* loop body goes on to uploadToInstagram
GetVideoShareLinkGoesOn ==
    /\ pc = "share"
    /\ \E ok \in BOOLEAN :
        IF ok
        THEN /\ pc' = "instagram"
             /\ NotCaught
        ELSE /\ pc' = "instagram"
             /\ thrownBy' = "getVideoShareLink"
             /\ endKind' = endKind
    /\ UNCHANGED <<pubs, ig, listed, data, durable, tmpDir, config, filePairs, idx, videoPath, results, judged, allSuccess,
                   exitCode, currentMetadata, apiCalls, writes, moves, mails, mailFailed, cleanups>>

\* 3-3: const videoUrl = await getVideoShareLink(config.drive, filePair.videoFileId)
GetVideoShareLink ==
    /\ pc = "share"
    /\ \E ok \in BOOLEAN :
        IF ok
        THEN /\ pc' = "instagram"
             /\ NotCaught
        ELSE Caught("getVideoShareLink")
    /\ UNCHANGED <<pubs, ig, listed, data, durable, tmpDir, config, filePairs, idx, videoPath, results, judged, allSuccess,
                   exitCode, currentMetadata, apiCalls, writes, moves, mails, mailFailed, cleanups>>

\* 3-3: uploadToInstagram
UploadInstagram ==
    /\ pc = "instagram"
    /\ \E apiOk \in BOOLEAN : HandleResult("instagram", uploadToInstagram(currentMetadata, apiOk))

\* 3-4: uploadToX
UploadX ==
    /\ pc = "x"
    /\ \E apiOk \in BOOLEAN :
        HandleResult("x", uploadToX(config.x, config.isXEnabled, currentMetadata, apiOk))

\* await updateJsonStatus(config.drive, filePair, currentMetadata) after a success
UpdateJsonStatus ==
    /\ pc \in WritePcs
    /\ writes' = writes + 1
    /\ \E ok \in BOOLEAN :
        IF ok
        THEN /\ drive_status' = [drive_status EXCEPT ![filePair.jsonFileId] =
                                    updateJsonStatus(@, currentMetadata)]
             /\ pc' = NextAfter(WritePlatform)
             /\ pubs' = pubs
             /\ NotCaught
        ELSE /\ Caught("updateJsonStatus")
             /\ drive_status' = drive_status
             /\ pubs' = WriteLost(pubs, WritePlatform)
    /\ UNCHANGED <<ig, listed, data, env, videoLoc, jsonLoc, drive_data, tmpDir, config, filePairs, idx, videoPath, results,
                   judged, allSuccess, exitCode, currentMetadata, apiCalls, moves, mails, mailFailed, cleanups>>

\* the branch on allSuccess lost the other way: the files are never moved
DispositionNeverMove(all) == "mail"

\* the branch on allSuccess lost: the files are moved in every case
DispositionAlwaysMove(all) == "move_video"

\* if (allSuccess) moveFilesToDone(...) else logger.warn(...): the next statement
Disposition(all) == IF all THEN "move_video" ELSE "mail"

\* Phase 4: const allSuccess = isAllSuccess(results, config.isXEnabled) and the
\* branch on it
Phase4 ==
    /\ pc = "phase4"
    /\ judged' = TRUE
    /\ allSuccess' = isAllSuccess(results, config.isXEnabled)
    /\ pc' = Disposition(allSuccess')
    /\ UNCHANGED <<pubs, ig, listed, data, durable, tmpDir, config, filePairs, idx, videoPath, results, exitCode,
                   currentMetadata, apiCalls, writes, moves, mails, mailFailed, endKind, thrownBy, cleanups>>

\* moveFilesToDone is called; its first files.update moves the mp4 file
MoveVideoToDone ==
    /\ pc = "move_video"
    /\ moves' = moves + 1
    /\ \E ok \in BOOLEAN :
        IF ok
        THEN /\ videoLoc' = [videoLoc EXCEPT ![filePair.videoFileId] = "done"]
             /\ pc' = "move_json"
             /\ NotCaught
        ELSE /\ Caught("moveFilesToDone")
             /\ videoLoc' = videoLoc
    /\ UNCHANGED <<pubs, ig, listed, data, env, jsonLoc, drive_status, drive_data, tmpDir, config, filePairs, idx, videoPath,
                   results, judged, allSuccess, exitCode, currentMetadata, apiCalls, writes, mails, mailFailed,
                   cleanups>>

\* the second files.update of moveFilesToDone moves the JSON file
MoveJsonToDone ==
    /\ pc = "move_json"
    /\ \E ok \in BOOLEAN :
        IF ok
        THEN /\ jsonLoc' = [jsonLoc EXCEPT ![filePair.jsonFileId] = "done"]
             /\ pc' = "mail"
             /\ NotCaught
        ELSE /\ Caught("moveFilesToDone")
             /\ jsonLoc' = jsonLoc
    /\ UNCHANGED <<pubs, ig, listed, data, env, videoLoc, drive_status, drive_data, tmpDir, config, filePairs, idx, videoPath,
                   results, judged, allSuccess, exitCode, currentMetadata, apiCalls, writes, moves, mails, mailFailed, cleanups>>

\* sendResultEmail without its try/catch: a failed send is thrown to the caller
sendResultEmailRethrows(sent) == IF sent THEN "returns" ELSE "throws"

\* services/mail.ts: how a call of sendResultEmail ends.  sent: createTransport
\* and sendMail succeed (TRUE) or one of them throws (FALSE); the catch block
\* logs the failure and the function returns
sendResultEmail(sent) == "returns"

\* await sendResultEmail(config.mail, batchResult), the last statement of the try
SendResultEmail ==
    /\ pc = "mail"
    /\ mails' = mails + 1
    /\ \E sent \in BOOLEAN :
        /\ mailFailed' = ~sent
        /\ IF sendResultEmail(sent) = "returns"
           THEN /\ pc' = "item_end"
                /\ endKind' = "ok"
                /\ thrownBy' = thrownBy
           ELSE Caught("sendResultEmail")
    /\ UNCHANGED <<pubs, ig, listed, data, durable, tmpDir, config, filePairs, idx, videoPath, results, judged, allSuccess,
                   exitCode, currentMetadata, apiCalls, writes, moves, cleanups>>

\* the for loop goes on to the next pair, or ends
NextItem ==
    /\ pc = "item_end"
    /\ IF Len(filePairs) > 1
       THEN BeginItem(idx + 1, Tail(filePairs))
       ELSE /\ pc' = "finally"
            /\ filePairs' = <<>>
            /\ idx' = idx
            /\ ResetItem
    /\ UNCHANGED <<pubs, ig, listed, data, durable, tmpDir, config, exitCode, cleanups>>

\* the outer catch: logger.error and process.exit(1), which ends the process at once
Fatal ==
    /\ pc = "fatal"
    /\ exitCode' = 1
    /\ pc' = "exited"
    /\ UNCHANGED <<pubs, ig, listed, data, durable, tmpDir, config, filePairs, idx, cleanups, itemLocal>>

\* the finally block: cleanupTmpFiles(), then main() returns
Finally ==
    /\ pc = "finally"
    /\ tmpDir' = FALSE
    /\ cleanups' = cleanups + 1
    /\ exitCode' = 0
    /\ pc' = "exited"
    /\ UNCHANGED <<pubs, ig, listed, data, durable, config, filePairs, idx, itemLocal>>

\* the process is killed in the middle of a run
Crash ==
    /\ pc \notin {"idle", "exited", "crashed"}
    /\ pc' = "crashed"
    /\ config' = NoConfig
    /\ filePairs' = <<>>
    /\ idx' = 0
    /\ exitCode' = 0
    /\ cleanups' = 0
    /\ ResetItem
    /\ pubs' = IF pc \in WritePcs THEN WriteLost(pubs, WritePlatform) ELSE pubs
    /\ UNCHANGED <<ig, listed, data, durable, tmpDir>>

Next ==
    \/ StartRun
    \/ LoadConfig
    \/ FetchFilePairs
    \/ DownloadVideo
    \/ UploadYouTube
    \/ UploadTikTok
    \/ GetVideoShareLink
    \/ UploadInstagram
    \/ UploadX
    \/ UpdateJsonStatus
    \/ Phase4
    \/ MoveVideoToDone
    \/ MoveJsonToDone
    \/ SendResultEmail
    \/ NextItem
    \/ Fatal
    \/ Finally
    \/ Crash

Spec == Init /\ [][Next]_vars

\* ------------------------------------------------- isAllSuccess on any list
\* outcome values handed to isAllSuccess: every platform with every success and
\* skipped flag; the error text is present on a failure that is no skip
OutcomeInputs ==
    {[platform |-> p, success |-> s, skipped |-> k, error |-> (~s /\ ~k)] :
        p \in PlatformSet, s \in BOOLEAN, k \in BOOLEAN}

InitAllSuccess ==
    /\ env = EnvOf(AllKeys, {})
    /\ videoLoc = [i \in Items |-> "pending"]
    /\ jsonLoc = [i \in Items |-> "pending"]
    /\ drive_status = [i \in Items |-> AllFalse]
    /\ drive_data = [i \in Items |-> WellFormed]
    /\ tmpDir = FALSE
    /\ pc = "phase4"
    /\ \E b \in BOOLEAN : config = [loaded |-> TRUE, x |-> b, isXEnabled |-> b]
    /\ filePairs = <<>>
    /\ idx = 0
    /\ videoPath = FALSE
    /\ results = <<>>
    /\ judged = FALSE
    /\ allSuccess = FALSE
    /\ exitCode = 0
    /\ currentMetadata = NoMetadata
    /\ apiCalls = <<>>
    /\ writes = 0
    /\ moves = 0
    /\ mails = 0
    /\ mailFailed = FALSE
    /\ endKind = Unset
    /\ thrownBy = Unset
    /\ cleanups = 0
    /\ data = NoData
    /\ listed = NoListing
    /\ ig = NoIg
    /\ pubs = NoPubs

\* one more outcome is put on the list that isAllSuccess will be given
AppendOutcome ==
    /\ ~judged
    /\ Len(results) < MaxResults
    /\ \E r \in OutcomeInputs : results' = Append(results, r)
    /\ UNCHANGED <<pubs, ig, listed, data, durable, tmpDir, pc, config, filePairs, idx, videoPath, judged, allSuccess, exitCode,
                   currentMetadata, apiCalls, writes, moves, mails, mailFailed, endKind, thrownBy, cleanups>>

\* isAllSuccess(results, isXEnabled) is evaluated
ApplyIsAllSuccess ==
    /\ ~judged
    /\ judged' = TRUE
    /\ allSuccess' = isAllSuccess(results, config.isXEnabled)
    /\ UNCHANGED <<pubs, ig, listed, data, durable, tmpDir, pc, config, filePairs, idx, videoPath, results, exitCode,
                   currentMetadata, apiCalls, writes, moves, mails, mailFailed, endKind, thrownBy, cleanups>>

NextAllSuccess ==
    \/ AppendOutcome
    \/ ApplyIsAllSuccess

SpecAllSuccess == InitAllSuccess /\ [][NextAllSuccess]_vars

\* --------------------------------------- fetchJsonContent on any parsed file
\* the PostMetadata a publisher is handed when fetchJsonContent returned d: the
\* object is d itself (JSON.parse(...) as PostMetadata), and the publishers read
\* a flag in the condition of an if statement, which takes its truthiness
AsPostMetadata(d) == [upload_status |-> [p \in PlatformSet |-> ~Falsy(d.flags[p])]]

\* the publisher of platform p as main() calls it with AppConfig cfg
Publisher(p, cfg, metadata, apiOk) ==
    CASE p = "youtube" -> uploadToYouTube(metadata, apiOk)
      [] p = "tiktok" -> uploadToTikTok(metadata, apiOk)
      [] p = "instagram" -> uploadToInstagram(metadata, apiOk)
      [] p = "x" -> uploadToX(cfg.x, cfg.isXEnabled, metadata, apiOk)

InitLoad ==
    /\ env = EnvOf(AllKeys, {})
    /\ videoLoc = [i \in Items |-> "pending"]
    /\ jsonLoc = [i \in Items |-> "pending"]
    /\ drive_status = [i \in Items |-> AllFalse]
    /\ drive_data = [i \in Items |-> WellFormed]
    /\ tmpDir = TRUE
    /\ pc = "fetchJsonContent"
    /\ config = loadConfig(env)
    /\ filePairs = <<>>
    /\ idx = 0
    /\ videoPath = FALSE
    /\ results = <<>>
    /\ judged = FALSE
    /\ allSuccess = FALSE
    /\ exitCode = 0
    /\ currentMetadata = NoMetadata
    /\ apiCalls = <<>>
    /\ writes = 0
    /\ moves = 0
    /\ mails = 0
    /\ mailFailed = FALSE
    /\ endKind = Unset
    /\ thrownBy = Unset
    /\ cleanups = 0
    /\ data \in ParsedRecords
    /\ listed = NoListing
    /\ ig = NoIg
    /\ pubs = NoPubs

\* the validation of fetchJsonContent: throw, or return data
ValidateJson ==
    /\ pc = "fetchJsonContent"
    /\ IF fetchJsonContentThrows(data.fields)
       THEN /\ thrownBy' = "fetchJsonContent"
            /\ pc' = "rejected"
       ELSE /\ thrownBy' = thrownBy
            /\ pc' = "returned"
    /\ UNCHANGED <<pubs, ig, listed, data, durable, tmpDir, config, filePairs, idx, videoPath, results, judged,
                   allSuccess, exitCode, currentMetadata, apiCalls, writes, moves, mails, mailFailed,
                   endKind, cleanups>>

\* the next publisher is called with the returned record
PublishReturned ==
    /\ pc = "returned"
    /\ Len(results) < Len(Platforms)
    /\ \E apiOk \in BOOLEAN :
        LET p == Platforms[Len(results) + 1]
            r == Publisher(p, config, AsPostMetadata(data), apiOk)
        IN  /\ results' = Append(results, r.result)
            /\ apiCalls' = IF r.api THEN Append(apiCalls, p) ELSE apiCalls
    /\ UNCHANGED <<pubs, ig, listed, data, durable, tmpDir, pc, config, filePairs, idx, videoPath, judged,
                   allSuccess, exitCode, currentMetadata, writes, moves, mails, mailFailed, endKind,
                   thrownBy, cleanups>>

NextLoad ==
    \/ ValidateJson
    \/ PublishReturned

SpecLoad == InitLoad /\ [][NextLoad]_vars

\* ------------------------------------------------ loadConfig on any X keys
\* environments with every required variable set and each X variable absent,
\* blank or set, and one environment that lacks a required variable
ConfigEnvs ==
    {EnvOf(RequiredKeys \cup valued, blank) :
        valued \in SUBSET XKeys, blank \in SUBSET XKeys}
    \cup {EnvOf(AllKeys \ {"MAIL_TO"}, {})}

InitConfig ==
    /\ env \in ConfigEnvs
    /\ videoLoc = [i \in Items |-> "pending"]
    /\ jsonLoc = [i \in Items |-> "pending"]
    /\ drive_status = [i \in Items |-> AllFalse]
    /\ drive_data = [i \in Items |-> WellFormed]
    /\ tmpDir = FALSE
    /\ pc = "loadConfig"
    /\ config = NoConfig
    /\ filePairs = <<>>
    /\ idx = 0
    /\ videoPath = FALSE
    /\ results = <<>>
    /\ judged = FALSE
    /\ allSuccess = FALSE
    /\ exitCode = 0
    /\ currentMetadata = NoMetadata
    /\ apiCalls = <<>>
    /\ writes = 0
    /\ moves = 0
    /\ mails = 0
    /\ mailFailed = FALSE
    /\ endKind = Unset
    /\ thrownBy = Unset
    /\ cleanups = 0
    /\ data = NoData
    /\ listed = NoListing
    /\ ig = NoIg
    /\ pubs = NoPubs

NextConfig == LoadConfig

SpecConfig == InitConfig /\ [][NextConfig]_vars

\* --------------------------------------- fetchFilePairs on any folder content
\* files.list results with up to MaxFiles files whose extension is one of exts;
\* Drive gives every file its own id, and lets two files have the same name
Listings(exts) ==
    UNION {{[i \in 1..n |-> [id |-> i, name |-> f[i]]] :
                f \in [1..n -> {nm \in FileNames : nm.ext \in exts}]} : n \in 0..MaxFiles}

InitPairing ==
    /\ env = EnvOf(AllKeys, {})
    /\ videoLoc = [i \in Items |-> "pending"]
    /\ jsonLoc = [i \in Items |-> "pending"]
    /\ drive_status = [i \in Items |-> AllFalse]
    /\ drive_data = [i \in Items |-> WellFormed]
    /\ tmpDir = TRUE
    /\ pc = "pairing"
    /\ config = loadConfig(env)
    /\ filePairs = <<>>
    /\ idx = 0
    /\ videoPath = FALSE
    /\ results = <<>>
    /\ judged = FALSE
    /\ allSuccess = FALSE
    /\ exitCode = 0
    /\ currentMetadata = NoMetadata
    /\ apiCalls = <<>>
    /\ writes = 0
    /\ moves = 0
    /\ mails = 0
    /\ mailFailed = FALSE
    /\ endKind = Unset
    /\ thrownBy = Unset
    /\ cleanups = 0
    /\ data = NoData
    /\ \E m \in Listings({"mp4", "MP4"}), j \in Listings({"json", "JSON"}) :
        listed = [mp4Files |-> m, jsonFiles |-> j]
    /\ ig = NoIg
    /\ pubs = NoPubs

\* the pairing loop of fetchFilePairs and its return
PairFiles ==
    /\ pc = "pairing"
    /\ filePairs' = pairFilesFrom(listed.mp4Files, listed.jsonFiles, 1)
    /\ pc' = "paired"
    /\ UNCHANGED <<pubs, ig, listed, data, durable, tmpDir, config, idx, videoPath, results, judged,
                   allSuccess, exitCode, currentMetadata, apiCalls, writes, moves, mails,
                   mailFailed, endKind, thrownBy, cleanups>>

NextPairing == PairFiles

SpecPairing == InitPairing /\ [][NextPairing]_vars

\* ------------------------------------------- one publisher on any arguments
\* the awaited API steps inside the try block of each publisher, in order
ApiSteps(p) ==
    CASE p = "youtube" -> <<"videos.insert">>
      [] p = "tiktok" -> <<"oauth/token", "video/init", "upload_url">>
      [] p = "instagram" -> <<"media", "status_code", "media_publish">>
      [] p = "x" -> <<"uploadMedia", "tweet">>

RECURSIVE TryBlock(_, _, _)
\* the try block of a publisher from step k on, when step failAt throws (0: no
\* step throws): TRUE when the block reaches its return statement, FALSE when
\* the catch block is entered
TryBlock(steps, k, failAt) ==
    IF k > Len(steps) THEN TRUE
    ELSE IF k = failAt THEN FALSE
    ELSE TryBlock(steps, k + 1, failAt)

InitPublish ==
    /\ env = EnvOf(AllKeys, {})
    /\ videoLoc = [i \in Items |-> "pending"]
    /\ jsonLoc = [i \in Items |-> "pending"]
    /\ drive_status = [i \in Items |-> AllFalse]
    /\ drive_data = [i \in Items |-> WellFormed]
    /\ tmpDir = TRUE
    /\ pc \in PlatformSet
    /\ \E a \in BOOLEAN, b \in BOOLEAN : config = [loaded |-> TRUE, x |-> a, isXEnabled |-> b]
    /\ filePairs = <<>>
    /\ idx = 0
    /\ videoPath = TRUE
    /\ results = <<>>
    /\ judged = FALSE
    /\ allSuccess = FALSE
    /\ exitCode = 0
    /\ \E st \in UploadStatus : currentMetadata = [upload_status |-> st]
    /\ apiCalls = <<>>
    /\ writes = 0
    /\ moves = 0
    /\ mails = 0
    /\ mailFailed = FALSE
    /\ endKind = Unset
    /\ thrownBy = Unset
    /\ cleanups = 0
    /\ data = NoData
    /\ listed = NoListing
    /\ ig = NoIg
    /\ pubs = NoPubs

\* the publisher of platform pc is called; one of its API steps may throw, and
\* thrownBy keeps the step whose exception the publisher's catch block caught
CallPublisher ==
    /\ pc \in PlatformSet
    /\ \E failAt \in 0..Len(ApiSteps(pc)) :
        LET r == Publisher(pc, config, currentMetadata, TryBlock(ApiSteps(pc), 1, failAt))
        IN  /\ results' = Append(results, r.result)
            /\ apiCalls' = IF r.api THEN Append(apiCalls, pc) ELSE apiCalls
            /\ thrownBy' = IF r.api /\ failAt # 0 THEN ApiSteps(pc)[failAt] ELSE Unset
    /\ pc' = "returned"
    /\ UNCHANGED <<pubs, ig, listed, data, durable, tmpDir, config, filePairs, idx, videoPath, judged, allSuccess,
                   exitCode, currentMetadata, writes, moves, mails, mailFailed, endKind, cleanups>>

NextPublish == CallPublisher

SpecPublish == InitPublish /\ [][NextPublish]_vars

\* ------------------------------ one pair whose JSON file is any accepted file
\* parsed JSON files that fetchJsonContent returns
AcceptedRecords == {d \in ParsedRecords : ~fetchJsonContentThrows(d.fields)}

\* fetchFilePairs returned one pair, whose metadata is the accepted file itself;
\* drive_status holds the truthiness of the stored flags, data the stored values
InitLoaded ==
    /\ env \in {EnvOf(AllKeys, {}), EnvOf(RequiredKeys, {})}
    /\ videoLoc = [i \in Items |-> IF i = 1 THEN "pending" ELSE "done"]
    /\ jsonLoc = [i \in Items |-> IF i = 1 THEN "pending" ELSE "done"]
    /\ data \in AcceptedRecords
    /\ drive_status = [i \in Items |-> IF i = 1 THEN AsPostMetadata(data).upload_status ELSE AllTrue]
    /\ drive_data = [i \in Items |-> WellFormed]
    /\ tmpDir = TRUE
    /\ pc = "download"
    /\ config = loadConfig(env)
    /\ filePairs = <<[videoFileId |-> 1, jsonFileId |-> 1, metadata |-> AsPostMetadata(data)]>>
    /\ idx = 1
    /\ videoPath = FALSE
    /\ results = <<>>
    /\ judged = FALSE
    /\ allSuccess = FALSE
    /\ exitCode = 0
    /\ currentMetadata = AsPostMetadata(data)
    /\ apiCalls = <<>>
    /\ writes = 0
    /\ moves = 0
    /\ mails = 0
    /\ mailFailed = FALSE
    /\ endKind = Unset
    /\ thrownBy = Unset
    /\ cleanups = 0
    /\ listed = NoListing
    /\ ig = NoIg
    /\ pubs = NoPubs

\* the body of the for loop of main() and the finally block
NextLoaded ==
    \/ DownloadVideo
    \/ UploadYouTube
    \/ UploadTikTok
    \/ GetVideoShareLink
    \/ UploadInstagram
    \/ UploadX
    \/ UpdateJsonStatus
    \/ Phase4
    \/ MoveVideoToDone
    \/ MoveJsonToDone
    \/ SendResultEmail
    \/ NextItem
    \/ Finally

SpecLoaded == InitLoaded /\ [][NextLoaded]_vars

\* the value of upload_status[p] stored in the JSON file of the current pair:
\* updateJsonStatus stores currentMetadata, in which main() has set to true the
\* flags of the platforms it published to and left the other values as parsed
StoredFlag(p) ==
    IF Falsy(data.flags[p]) /\ drive_status[filePair.jsonFileId][p] THEN "true"
    ELSE data.flags[p]

\* ------------------------------------- repeated runs on one pending pair
\* a new pair is put in the pending folder with its four flags false; every
\* other file is in the done folder; the history of its publications is kept
InitRuns ==
    /\ env \in EnvChoices
    /\ videoLoc = [i \in Items |-> IF i = 1 THEN "pending" ELSE "done"]
    /\ jsonLoc = [i \in Items |-> IF i = 1 THEN "pending" ELSE "done"]
    /\ drive_status = [i \in Items |-> IF i = 1 THEN AllFalse ELSE AllTrue]
    /\ drive_data = [i \in Items |-> WellFormed]
    /\ tmpDir = FALSE
    /\ pc = "idle"
    /\ config = NoConfig
    /\ filePairs = <<>>
    /\ idx = 0
    /\ videoPath = FALSE
    /\ results = <<>>
    /\ judged = FALSE
    /\ allSuccess = FALSE
    /\ exitCode = 0
    /\ currentMetadata = NoMetadata
    /\ apiCalls = <<>>
    /\ writes = 0
    /\ moves = 0
    /\ mails = 0
    /\ mailFailed = FALSE
    /\ endKind = Unset
    /\ thrownBy = Unset
    /\ cleanups = 0
    /\ data = NoData
    /\ listed = NoListing
    /\ ig = NoIg
    /\ pubs = [NoPubs EXCEPT !.on = TRUE]

SpecRuns == InitRuns /\ [][Next]_vars

\* ------------------------ repeated runs when every Drive operation succeeds
\* a new pair in the pending folder and a configuration that loadConfig accepts
InitReliable ==
    /\ InitRuns
    /\ ~loadConfigThrows(env)

\* the step throws nothing: neither catch block of main() is entered
NoThrow == endKind' # "caught" /\ pc' # "fatal"

\* main() started again and again, never killed, with Drive calls that all return
NextReliable ==
    \/ StartRun
    \/ LoadConfig
    \/ FetchFilePairs /\ NoThrow
    \/ DownloadVideo /\ NoThrow
    \/ UploadYouTube
    \/ UploadTikTok
    \/ GetVideoShareLink /\ NoThrow
    \/ UploadInstagram
    \/ UploadX
    \/ UpdateJsonStatus /\ NoThrow
    \/ Phase4
    \/ MoveVideoToDone /\ NoThrow
    \/ MoveJsonToDone /\ NoThrow
    \/ SendResultEmail
    \/ NextItem
    \/ Finally

\* the publisher of platform p is called, calls its API and returns success
Succeeds(p) ==
    /\ pc = p
    /\ NextReliable
    /\ Len(results') = Len(results) + 1
    /\ results'[Len(results')].success /\ ~results'[Len(results')].skipped

\* the process is started again after each exit and every started step ends;
\* a publisher that is attempted in run after run succeeds in one of them
SpecReliable ==
    /\ InitReliable
    /\ [][NextReliable]_vars
    /\ WF_vars(NextReliable)
    /\ \A p \in PlatformSet : SF_vars(Succeeds(p))

\* ------------------------------------- uploadToInstagram, one await at a time
\* values of status_code the Graph API can answer for a media container
StatusCodes == {"FINISHED", "ERROR", "IN_PROGRESS", "EXPIRED", "PUBLISHED"}

\* the polling loop treating an ERROR status like a container still in progress
StatusBranchIgnoresError(statusCode) ==
    IF statusCode = "FINISHED" THEN "break" ELSE "continue"

\* the if / else if after a status check
StatusBranch(statusCode) ==
    IF statusCode = "FINISHED" THEN "break"
    ELSE IF statusCode = "ERROR" THEN "throw"
    ELSE "continue"

\* the statement after the loop without its timeout check
AfterLoopNoTimeout(isReady) == "ig_publish"

\* if (!isReady) throw, else go on to step 3
AfterLoop(isReady) == IF isReady THEN "ig_publish" ELSE "throw"

InitInstagram ==
    /\ env = EnvOf(AllKeys, {})
    /\ videoLoc = [i \in Items |-> "pending"]
    /\ jsonLoc = [i \in Items |-> "pending"]
    /\ drive_status = [i \in Items |-> AllFalse]
    /\ drive_data = [i \in Items |-> WellFormed]
    /\ tmpDir = TRUE
    /\ pc = "ig_call"
    /\ config = loadConfig(env)
    /\ filePairs = <<>>
    /\ idx = 0
    /\ videoPath = TRUE
    /\ results = <<>>
    /\ judged = FALSE
    /\ allSuccess = FALSE
    /\ exitCode = 0
    /\ \E st \in UploadStatus : currentMetadata = [upload_status |-> st]
    /\ apiCalls = <<>>
    /\ writes = 0
    /\ moves = 0
    /\ mails = 0
    /\ mailFailed = FALSE
    /\ endKind = Unset
    /\ thrownBy = Unset
    /\ cleanups = 0
    /\ data = NoData
    /\ listed = NoListing
    /\ ig = NoIg
    /\ pubs = NoPubs

IgFrame ==
    UNCHANGED <<pubs, listed, data, durable, tmpDir, config, filePairs, idx, videoPath, judged,
                allSuccess, exitCode, currentMetadata, writes, moves, mails, mailFailed,
                endKind, cleanups>>

\* the catch block: log and return the failure outcome
IgCatch(step) ==
    /\ results' = Append(results, uploadToInstagram(currentMetadata, FALSE).result)
    /\ thrownBy' = step
    /\ pc' = "ig_returned"

\* the already-uploaded check, before the try block
IgCall ==
    /\ pc = "ig_call"
    /\ IF currentMetadata.upload_status["instagram"]
       THEN /\ results' = Append(results, uploadToInstagram(currentMetadata, TRUE).result)
            /\ pc' = "ig_returned"
       ELSE /\ results' = results
            /\ pc' = "ig_container"
    /\ UNCHANGED <<ig, apiCalls, thrownBy>>
    /\ IgFrame

\* step 1: POST /media returns the container id or throws
IgCreateContainer ==
    /\ pc = "ig_container"
    /\ apiCalls' = Append(apiCalls, "instagram")
    /\ \E ok \in BOOLEAN :
        IF ok
        THEN /\ ig' = [ig EXCEPT !.container = TRUE]
             /\ pc' = "ig_loop"
             /\ UNCHANGED <<results, thrownBy>>
        ELSE /\ ig' = ig
             /\ IgCatch("media")
    /\ IgFrame

\* the loop condition, and the sleep that opens the loop body
IgLoop ==
    /\ pc = "ig_loop"
    /\ IF ig.i < MAX_STATUS_CHECKS
       THEN /\ ig' = [ig EXCEPT !.slept = @ + STATUS_CHECK_INTERVAL]
            /\ pc' = "ig_status"
            /\ UNCHANGED <<results, thrownBy>>
       ELSE IF AfterLoop(ig.isReady) = "throw"
            THEN /\ ig' = ig
                 /\ IgCatch("timeout")
            ELSE /\ ig' = ig
                 /\ pc' = AfterLoop(ig.isReady)
                 /\ UNCHANGED <<results, thrownBy>>
    /\ UNCHANGED apiCalls
    /\ IgFrame

\* GET status_code returns a status or throws; FINISHED breaks, ERROR throws,
\* any other status goes to i++
IgStatus ==
    /\ pc = "ig_status"
    /\ \/ \E statusCode \in StatusCodes :
            LET checked == [ig EXCEPT !.checks = @ + 1, !.statusCode = statusCode]
            IN  CASE StatusBranch(statusCode) = "break" ->
                        /\ ig' = [checked EXCEPT !.isReady = TRUE]
                        /\ pc' = AfterLoop(TRUE)
                        /\ UNCHANGED <<results, thrownBy>>
                  [] StatusBranch(statusCode) = "throw" ->
                        /\ ig' = checked
                        /\ IgCatch("status_code")
                  [] StatusBranch(statusCode) = "continue" ->
                        /\ ig' = [checked EXCEPT !.i = @ + 1]
                        /\ pc' = "ig_loop"
                        /\ UNCHANGED <<results, thrownBy>>
       \/ /\ ig' = [ig EXCEPT !.checks = @ + 1, !.statusCode = "threw"]
          /\ IgCatch("status_code")
    /\ UNCHANGED apiCalls
    /\ IgFrame

\* step 3: POST /media_publish returns the media id or throws
IgPublish ==
    /\ pc = "ig_publish"
    /\ \E ok \in BOOLEAN :
        IF ok
        THEN /\ ig' = [ig EXCEPT !.publishCalls = @ + 1, !.published = TRUE]
             /\ results' = Append(results, uploadToInstagram(currentMetadata, TRUE).result)
             /\ pc' = "ig_returned"
             /\ UNCHANGED thrownBy
        ELSE /\ ig' = [ig EXCEPT !.publishCalls = @ + 1]
             /\ IgCatch("media_publish")
    /\ UNCHANGED apiCalls
    /\ IgFrame

NextInstagram == IgCall \/ IgCreateContainer \/ IgLoop \/ IgStatus \/ IgPublish

SpecInstagram == InitInstagram /\ [][NextInstagram]_vars

\* every await of uploadToInstagram settles: the timer fires, and each HTTP
\* request is answered or rejected
SpecInstagramFair == SpecInstagram /\ WF_vars(NextInstagram)

\* ------------------------------------------------------------- vocabulary
\* a pair is being processed: the for loop is at a pair
InItem == filePairs # <<>>

\* the three kinds of outcome
IsFailure(r) == ~r.success /\ ~r.skipped

IsPublished(r) == r.success /\ ~r.skipped

IsSkip(r) == r.skipped

\* platforms whose API was called for the current pair
Attempted == {apiCalls[k] : k \in 1..Len(apiCalls)}

\* the platforms the configuration enables
Enabled == IF config.isXEnabled THEN PlatformSet ELSE PlatformSet \ {"x"}

\* the upload_status of the current pair as stored on Drive
DurableStatus == drive_status[filePair.jsonFileId]

\* the four publishers have returned and Phase 4 has been reached
Phase4Reached == pc \in {"phase4", "move_video", "move_json", "mail"} \/ judged

Published == {k \in 1..Len(results) : IsPublished(results[k])}

\* ------------------------------------------------------------------ claims

\* C1  Partial-failure isolation.  Once the publisher at position k has returned a
\* failure, the publisher at position k+1 has been invoked or is the next
\* call of main(); after TikTok the only statement in between is
\* getVideoShareLink, which is about to run or is what threw.  A failure never
\* ends the pair's processing by itself, whatever the other outcomes are.
C1_FailureDoesNotStopLaterPublishers ==
    \A k \in 1..3 :
        (Len(results) >= k /\ IsFailure(results[k])) =>
            \/ Len(results) > k
            \/ pc = Platforms[k + 1]
            \/ /\ k = 2
               /\ \/ pc = "share"
                  \/ pc = "item_end" /\ thrownBy = "getVideoShareLink"

\* two failures in a row, and Instagram and X were still called
C1_Witness ==
    /\ Len(results) = 4
    /\ IsFailure(results[1])
    /\ IsFailure(results[2])
    /\ "instagram" \in Attempted
    /\ "x" \in Attempted

\* C2  Eager persistence ordering.  When the publisher at position k returned
\* success without skip, then at the moment publisher k+1 is called, and ever
\* after in this pair's processing, the JSON file on Drive holds
\* upload_status[k] = true.
C2_WriteBeforeNextPublisher ==
    \A k \in 1..3 :
        (InItem /\ Len(results) >= k /\ IsPublished(results[k])
            /\ (Len(results) > k \/ pc = Platforms[k + 1]))
        => DurableStatus[Platforms[k]]

\* three publications in a row, each persisted before the next call
C2_Witness ==
    /\ pc = "x"
    /\ \A k \in 1..3 : IsPublished(results[k])
    /\ loaded = AllFalse
    /\ \A k \in 1..3 : DurableStatus[Platforms[k]]

\* C3  Status mutation rule, on states: a completed pair issued as many
\* updateJsonStatus calls as it has non-skipped successes, and no call is
\* pending or issued behind a failure or a skip.
C3_WritesMatchSuccesses ==
    /\ Phase4Reached => writes = Cardinality(Published)
    /\ pc \in WritePcs => (results # <<>> /\ IsPublished(results[Len(results)])
                           /\ results[Len(results)].platform = WritePlatform)
    /\ writes <= Cardinality(Published)

\* C3, on steps: a flag of upload_status, in memory or on Drive, changes only
\* from false to true, only for the platform of the last outcome, and only
\* when that outcome is a non-skipped success; a step that records a failure
\* or a skip changes no flag and leads to no write.
C3_StepRule ==
    /\ \A i \in Items : \A p \in PlatformSet :
        drive_status'[i][p] # drive_status[i][p] =>
            /\ drive_status'[i][p]
            /\ InItem /\ i = filePair.jsonFileId
            /\ results # <<>>
            /\ results[Len(results)].platform = p
            /\ IsPublished(results[Len(results)])
    /\ (InItem /\ idx' = idx /\ filePairs' = filePairs) =>
        \A p \in PlatformSet :
            currentMetadata'.upload_status[p] # currentMetadata.upload_status[p] =>
                /\ currentMetadata'.upload_status[p]
                /\ Len(results') = Len(results) + 1
                /\ results'[Len(results')].platform = p
                /\ IsPublished(results'[Len(results')])
    /\ (Len(results') = Len(results) + 1 /\ ~IsPublished(results'[Len(results')])) =>
        /\ currentMetadata' = currentMetadata
        /\ drive_status' = drive_status
        /\ writes' = writes
        /\ pc' \notin WritePcs

C3_StatusMutationRule == [](C3_WritesMatchSuccesses) /\ [][C3_StepRule]_vars

\* a completed pair with two publications, a failure and a skip: two writes
C3_Witness ==
    /\ pc = "phase4"
    /\ writes = 2
    /\ Cardinality(Published) = 2
    /\ \E k \in 1..4 : IsFailure(results[k])
    /\ \E k \in 1..4 : IsSkip(results[k])

\* C4  Overall-success computation.  isAllSuccess returns false exactly when
\* the list holds an outcome that is not skipped, not successful, and not an
\* outcome of platform x while X is disabled.
C4_IsAllSuccessMeaning ==
    judged =>
        (allSuccess <=>
            ~\E k \in 1..Len(results) :
                /\ ~results[k].skipped
                /\ ~results[k].success
                /\ (results[k].platform # "x" \/ config.isXEnabled))

\* a list of skips only, one of them a skip with success=false, gives true
C4_Witness ==
    /\ judged
    /\ allSuccess
    /\ Len(results) = 4
    /\ \A k \in 1..4 : results[k].skipped
    /\ \E k \in 1..4 : ~results[k].success

\* C5  Idempotence.  While a pair that was loaded with every flag true is
\* processed, every outcome is a skip, no platform API is called, no
\* updateJsonStatus call is issued, and Phase 4 sees four outcomes and
\* computes allSuccess = true.
C5_Idempotence ==
    (InItem /\ loaded = AllTrue) =>
        /\ \A k \in 1..Len(results) : results[k].skipped
        /\ apiCalls = <<>>
        /\ writes = 0
        /\ pc \notin WritePcs
        /\ Phase4Reached => Len(results) = 4
        /\ judged => allSuccess

\* an all-true pair went through the whole pipeline with X disabled
C5_Witness ==
    /\ pc = "item_end"
    /\ endKind = "ok"
    /\ loaded = AllTrue
    /\ ~config.isXEnabled
    /\ Len(results) = 4
    /\ judged /\ allSuccess

\* C6  Disposition.  moveFilesToDone is called at most once per pair and only
\* when allSuccess was computed true; once the branch on allSuccess is behind,
\* it was called exactly once when allSuccess is true, and when allSuccess is
\* false it was not called and both files of the pair are in the pending folder.
C6_Disposition ==
    /\ moves <= 1
    /\ moves = 1 => (judged /\ allSuccess)
    /\ (judged /\ allSuccess /\ pc \in {"move_json", "mail", "item_end"}) => moves = 1
    /\ (InItem /\ judged /\ ~allSuccess) =>
        /\ moves = 0
        /\ pc \in {"mail", "item_end"}
        /\ videoLoc[filePair.videoFileId] = "pending"
        /\ jsonLoc[filePair.jsonFileId] = "pending"

\* a pair with a failed platform ended with no move; checked together with the
\* moved case by C6_Disposition
C6_Witness ==
    /\ pc = "item_end"
    /\ endKind = "ok"
    /\ judged /\ ~allSuccess
    /\ moves = 0
    /\ Cardinality(Published) = 3

\* C7  Crash-safe resume.  A platform whose flag was true in the JSON file when
\* this run loaded the pair is not attempted in this run: its API is not
\* called and its outcome is a skip.
C7_NoAttemptWhenLoadedTrue ==
    InItem =>
        /\ \A p \in PlatformSet : loaded[p] => p \notin Attempted
        /\ \A k \in 1..Len(results) : loaded[results[k].platform] => results[k].skipped

\* a resumed pair: YouTube was persisted by an earlier run, TikTok was not
C7_Witness ==
    /\ InItem
    /\ loaded["youtube"] /\ ~loaded["tiktok"]
    /\ Len(results) = 4
    /\ results[1].skipped
    /\ "tiktok" \in Attempted

\* C8  Retry on the next run.  When allSuccess is false the pair stays in the
\* pending folder and the flag on Drive of every failed platform is false; a
\* run starts a pair from the flags Drive holds, calls the API of exactly the
\* enabled platforms whose loaded flag is not true, skips the others, and
\* calls no platform twice.
C8_RetryNextRun ==
    InItem =>
        /\ (judged /\ ~allSuccess) =>
            /\ videoLoc[filePair.videoFileId] = "pending"
            /\ jsonLoc[filePair.jsonFileId] = "pending"
            /\ \A k \in 1..Len(results) :
                IsFailure(results[k]) => ~DurableStatus[results[k].platform]
        /\ pc = "download" => loaded = DurableStatus
        /\ \A k \in 1..Len(results) :
            /\ results[k].platform = Platforms[k]
            /\ results[k].skipped <=> (results[k].platform \notin Enabled \/ loaded[results[k].platform])
            /\ results[k].platform \in Attempted <=> ~results[k].skipped
        /\ Attempted \subseteq {results[k].platform : k \in 1..Len(results)}
        /\ Cardinality(Attempted) = Len(apiCalls)

\* a run that retries: the pair was loaded with some flags true and some false,
\* attempted the rest and failed again on one of them
C8_Witness ==
    /\ InItem
    /\ loaded["youtube"] /\ ~loaded["tiktok"] /\ ~loaded["instagram"]
    /\ judged /\ ~allSuccess
    /\ Attempted = Enabled \ {"youtube"}
    /\ IsFailure(results[2])

C9_PersistedWhenWriteReturned ==
    (InItem /\ pc = "item_end") =>
        \A k \in Published :
            ~(k = Len(results) /\ thrownBy = "updateJsonStatus")
                => DurableStatus[results[k].platform]

C9_FlagStaysTrue ==
    \A i \in Items : \A p \in PlatformSet : drive_status[i][p] => drive_status'[i][p]

C10_ItemFailureContained ==
    /\ (pc = "fatal" \/ (pc = "exited" /\ exitCode = 1)) =>
        (idx = 0 /\ filePairs = <<>> /\ endKind = Unset)
    /\ endKind = "caught" => (pc = "item_end" /\ InItem)
    /\ pc \in {"finally", "exited"} => filePairs = <<>>

\* moveFilesToDone threw for the first pair of this run after moving its mp4
\* file; the second pair was processed to the end and the run ended with status 0
C10_Witness ==
    /\ pc = "exited"
    /\ exitCode = 0
    /\ idx = 2
    /\ videoLoc[1] = "done"
    /\ jsonLoc[1] = "pending"
    /\ jsonLoc[2] = "done"

\* a pair of the pending folder: both files of item i are there
Pending(i) == videoLoc[i] = "pending" /\ jsonLoc[i] = "pending"

\* C11  Validation error scoped to one item.  When fetchJsonContent rejected the
\* record of one pending item while another pending item is well formed, the
\* exception is not handled by the outer catch: the run does not abort and
\* does not end with exit status 1.
C11_ValidationErrorScopedToItem ==
    (/\ thrownBy = "fetchJsonContent"
     /\ \E j \in Items : Pending(j) /\ ~fetchJsonContentThrows(drive_data[j])) =>
        /\ pc # "fatal"
        /\ ~(pc = "exited" /\ exitCode = 1)

\* types/index.ts UploadStatus: one boolean for each of the four platforms
IsUploadStatus(flags) == \A p \in PlatformSet : flags[p] \in {"true", "false"}

\* C12  Status-vector validation.  fetchJsonContent returns a record only when its
\* upload_status holds a boolean for each of the four platforms, and no publisher
\* calls its API for a platform whose flag is missing in the record.
C12_StatusVectorValidated ==
    /\ pc = "returned" => IsUploadStatus(data.flags)
    /\ \A k \in 1..Len(apiCalls) : data.flags[apiCalls[k]] # "undefined"

\* the calls of the bootstrap phase (Phase 1 and Phase 2) that can throw
BootstrapCalls == {"loadConfig", "createDriveClient", "files.list", "fetchJsonContent"}

\* C13  Exit status.  A process that has ended has exit status 1 exactly when a
\* call of the bootstrap phase threw; a missing or blank required variable gives
\* exit status 1; and with exit status 1 no pair was begun: nothing was
\* downloaded, published, persisted, moved or reported.
C13_ExitStatus ==
    pc = "exited" =>
        /\ exitCode = 1 <=> thrownBy \in BootstrapCalls
        /\ (\E key \in RequiredKeys : env[key] \in {"absent", "blank"}) =>
                (exitCode = 1 /\ thrownBy = "loadConfig")
        /\ exitCode = 1 =>
            /\ idx = 0
            /\ filePairs = <<>>
            /\ ~videoPath
            /\ results = <<>>
            /\ apiCalls = <<>>
            /\ writes = 0
            /\ moves = 0
            /\ mails = 0
            /\ ~mailFailed

\* C13 witness: files.list threw in Phase 2 and the process ended with status 1
C13_Witness ==
    /\ pc = "exited"
    /\ exitCode = 1
    /\ thrownBy = "files.list"
    /\ \E i \in Items : Pending(i)

\* C14  Release of the staging area.  Every run of main() that has ended has
\* executed cleanupTmpFiles once and leaves no tmp directory behind, the run
\* that ended with process.exit(1) included.
C14_CleanupOnEveryPath ==
    pc = "exited" =>
        /\ cleanups = 1
        /\ ~tmpDir

\* moveFilesToDone has moved both files of the current pair
Finalized ==
    /\ videoLoc[filePair.videoFileId] = "done"
    /\ jsonLoc[filePair.jsonFileId] = "done"

\* a failed send leaves the pair's try block ended normally, with the disposition
\* that allSuccess decided
C15_FailedSendIsSwallowed ==
    mailFailed =>
        /\ pc = "item_end"
        /\ endKind = "ok"
        /\ thrownBy = Unset
        /\ judged
        /\ allSuccess <=> Finalized

\* after a failed send the for loop goes on with the next pair, or ends through
\* the finally block when the pair was the last one
C15_LoopGoesOn ==
    mailFailed =>
        \/ pc' = "crashed"
        \/ Len(filePairs) > 1 /\ pc' = "download" /\ idx' = idx + 1
        \/ Len(filePairs) = 1 /\ pc' = "finally"

\* C15  Notifier containment.  A failure of sendResultEmail is not thrown to
\* main(): the pair's processing ends normally, the pair is finalized exactly
\* when allSuccess is true, and the loop goes on to the next pair or to the
\* normal end of the run.
C15_NotifierContainment == [](C15_FailedSendIsSwallowed) /\ [][C15_LoopGoesOn]_vars

\* C15 witness: the send failed for a pair that was moved to the done folder
\* while another pair is still to be processed
C15_Witness ==
    /\ mailFailed
    /\ allSuccess
    /\ Finalized
    /\ Len(filePairs) > 1

\* C16  One report per item.  sendResultEmail is never called twice for a pair,
\* and when the processing of a pair is over it has been called once, also
\* when the try block ended in the catch block.
C16_OneReportPerItem ==
    /\ mails <= 1
    /\ pc = "item_end" => mails = 1

\* C17  Platform error containment.  When an API step of a publisher threw, the
\* publisher has returned an outcome with success=false, skipped=false and an
\* error text; and no returned outcome has success=true together with an
\* error text.
C17_PlatformErrorContained ==
    pc = "returned" =>
        /\ Len(results) = 1
        /\ thrownBy # Unset =>
            /\ ~results[1].success
            /\ ~results[1].skipped
            /\ results[1].error
        /\ results[1].success => ~results[1].error

\* C17 witness: the second step of uploadToTikTok threw and the publisher returned
C17_Witness ==
    /\ pc = "returned"
    /\ thrownBy = "video/init"
    /\ results[1].platform = "tiktok"

\* uploadToX takes its first early return: X is disabled
XDisabled == ~config.isXEnabled \/ ~config.x

\* C18  Skip when already published.  A publisher called with upload_status[p]
\* true (and, for X, with X enabled) has returned success=true, skipped=true,
\* without an error text and without calling an API step of its platform.
C18_SkipWhenPublished ==
    pc = "returned" =>
        LET p == results[1].platform
        IN  (currentMetadata.upload_status[p] /\ (p = "x" => ~XDisabled)) =>
                /\ results[1].success
                /\ results[1].skipped
                /\ ~results[1].error
                /\ apiCalls = <<>>
                /\ thrownBy = Unset

\* C18 witness: uploadToYouTube returned for a record whose youtube flag is true
C18_Witness ==
    /\ pc = "returned"
    /\ results[1].platform = "youtube"
    /\ currentMetadata.upload_status["youtube"]
    /\ results[1].skipped

\* C19  Skip when disabled.  uploadToX called with isXEnabled false or a null
\* config has returned success=false, skipped=true without calling the API,
\* whatever upload_status.x is.
C19_SkipWhenDisabled ==
    (pc = "returned" /\ results[1].platform = "x" /\ XDisabled) =>
        /\ ~results[1].success
        /\ results[1].skipped
        /\ ~results[1].error
        /\ apiCalls = <<>>
        /\ thrownBy = Unset

\* C19 witness: X is disabled and upload_status.x is true
C19_Witness ==
    /\ pc = "returned"
    /\ results[1].platform = "x"
    /\ ~config.isXEnabled
    /\ currentMetadata.upload_status["x"]
    /\ results[1].skipped

\* the X variables that are set to a non-blank value
XKeysSet == {k \in XKeys : env[k] = "value"}

\* C20  Disabled-credential detection.  With every required variable set,
\* loadConfig does not throw, whatever subset of the four X variables is set;
\* the config it returns has isXEnabled true exactly when all four are set,
\* and x non-null exactly when isXEnabled is true.
C20_XEnabledIffAllFourKeys ==
    /\ (\A key \in RequiredKeys : env[key] = "value") => thrownBy # "loadConfig"
    /\ config.loaded =>
        /\ config.isXEnabled <=> XKeysSet = XKeys
        /\ config.x <=> config.isXEnabled

\* C20 witness: loadConfig returned with three of the four X variables set and
\* the fourth blank
C20_Witness ==
    /\ config.loaded
    /\ Cardinality(XKeysSet) = 3
    /\ env["X_ACCESS_TOKEN"] = "blank"
    /\ ~config.isXEnabled

\* C21  Fixed order, single attempt.  The outcome list of the current pair holds
\* the outcomes of the publishers called so far, one each, in the order
\* YouTube, TikTok, Instagram, X; no platform's API is called twice; and once
\* the disposition step is reached the list holds exactly the four outcomes.
C21_FixedOrderSingleAttempt ==
    InItem =>
        /\ Len(results) <= Len(Platforms)
        /\ \A k \in 1..Len(results) : results[k].platform = Platforms[k]
        /\ \A j, k \in 1..Len(apiCalls) : apiCalls[j] = apiCalls[k] => j = k
        /\ Phase4Reached => Len(results) = Len(Platforms)

\* C21 witness: the disposition step is reached after a failure of YouTube and a
\* publication on TikTok
C21_Witness ==
    /\ pc = "mail"
    /\ Len(results) = 4
    /\ IsFailure(results[1])
    /\ IsPublished(results[2])
    /\ results[4].platform = "x"

\* C22  Unique locators.  In the list fetchFilePairs returns, no two pairs have
\* the same jsonFileId and no two have the same videoFileId.
C22_UniqueLocators ==
    pc = "paired" =>
        \A j, k \in 1..Len(filePairs) :
            j # k =>
                /\ filePairs[j].jsonFileId # filePairs[k].jsonFileId
                /\ filePairs[j].videoFileId # filePairs[k].videoFileId

\* C23: the status-polling loop of uploadToInstagram makes at most
\* MAX_STATUS_CHECKS status checks, each one preceded by one sleep of
\* STATUS_CHECK_INTERVAL; the call always returns; and when MAX_STATUS_CHECKS
\* checks reported neither FINISHED nor ERROR it returns success=false,
\* skipped=false without having called media_publish.
C23_PollingBounds ==
    /\ ig.i <= MAX_STATUS_CHECKS
    /\ ig.checks <= MAX_STATUS_CHECKS
    /\ ig.slept = STATUS_CHECK_INTERVAL * (ig.checks + (IF pc = "ig_status" THEN 1 ELSE 0))
    /\ pc = "ig_loop" => ig.checks = ig.i
    /\ (pc = "ig_returned" /\ ig.i = MAX_STATUS_CHECKS) =>
            /\ Len(results) = 1
            /\ IsFailure(results[1])
            /\ ig.publishCalls = 0

C23_BoundedPolling == [](C23_PollingBounds) /\ <>(pc = "ig_returned")

C23_Witness ==
    /\ pc = "ig_returned"
    /\ ig.i = MAX_STATUS_CHECKS
    /\ ig.checks = MAX_STATUS_CHECKS
    /\ ig.slept = MAX_STATUS_CHECKS * STATUS_CHECK_INTERVAL
    /\ thrownBy = "timeout"
    /\ IsFailure(results[1])

\* C24: media_publish is called only after the container was created and a
\* status check answered FINISHED; a status check answering ERROR ends the
\* polling at once with an outcome success=false and no publish; and the
\* outcome success=true, skipped=false is returned only after media_publish
\* succeeded.
C24_PublishGate ==
    /\ (pc = "ig_publish" \/ ig.publishCalls > 0) =>
            ig.container /\ ig.isReady /\ ig.statusCode = "FINISHED"
    /\ ig.publishCalls <= 1
    /\ ig.statusCode = "ERROR" =>
            /\ pc = "ig_returned"
            /\ Len(results) = 1
            /\ ~results[1].success
            /\ ig.publishCalls = 0
    /\ (pc = "ig_returned" /\ IsPublished(results[1])) => ig.published
    /\ ig.published => ig.publishCalls = 1

C24_Witness ==
    /\ pc = "ig_returned"
    /\ ig.statusCode = "ERROR"
    /\ ig.checks = 3
    /\ IsFailure(results[1])

\* C25: moveFilesToDone is called for a pair only when, for every enabled
\* platform (youtube, tiktok, instagram always; x exactly when isXEnabled),
\* the upload_status flag stored in the pair's JSON file is true at that moment.
C25_FinalizeOnlyWhenAllFlagsTrue ==
    pc = "move_video" => \A p \in Enabled : StoredFlag(p) = "true"

\* C25 on JSON files whose flags are booleans: the stored flags are then the
\* booleans of drive_status
C25_OnBooleanFlags ==
    pc = "move_video" => \A p \in Enabled : DurableStatus[p]

\* C26: when updateJsonStatus (after a success) or getVideoShareLink (before
\* Instagram) throws, the pair's processing ends in the catch block: no later
\* publisher has been invoked (the outcome list stops at the platform whose
\* write failed, or at tiktok), neither moveFilesToDone nor sendResultEmail is
\* called, the flags written before the throw are true on Drive and the flag
\* whose write failed is as it was loaded, and both files are in pending.
C26_AbortRestOfItem ==
    (InItem /\ thrownBy \in {"updateJsonStatus", "getVideoShareLink"}) =>
        LET n == Len(results)
            written == IF thrownBy = "updateJsonStatus" THEN n - 1 ELSE n
        IN  /\ pc = "item_end"
            /\ endKind = "caught"
            /\ ~judged /\ moves = 0 /\ mails = 0
            /\ thrownBy = "getVideoShareLink" => n = 2
            /\ thrownBy = "updateJsonStatus" =>
                    /\ n >= 1
                    /\ IsPublished(results[n])
                    /\ writes = Cardinality(Published)
                    /\ DurableStatus[results[n].platform] = loaded[results[n].platform]
            /\ \A k \in 1..n : results[k].platform = Platforms[k]
            /\ \A k \in 1..written : IsPublished(results[k]) => DurableStatus[results[k].platform]
            /\ Pending(filePair.videoFileId) /\ Pending(filePair.jsonFileId)

C26_Witness ==
    /\ InItem
    /\ pc = "item_end"
    /\ thrownBy = "getVideoShareLink"
    /\ IsPublished(results[1])
    /\ IsFailure(results[2])
    /\ DurableStatus["youtube"]
    /\ ~DurableStatus["instagram"]

\* C27: after moveFilesToDone, whether it returned or threw, the mp4 file and
\* the JSON file of the pair are in the same folder: both in done or both in
\* pending.
C27_AtomicFinalize ==
    (InItem /\ moves > 0 /\ pc \notin {"move_video", "move_json"}) =>
        videoLoc[filePair.videoFileId] = jsonLoc[filePair.jsonFileId]

\* C28: over any number of runs on the same pair, a platform whose every
\* publication was followed by a completed updateJsonStatus (no crash and no
\* write failure between the two) returned success=true, skipped=false at most
\* once; and once that write is done the flag on Drive is true.
C28_AtMostOnePublication ==
    pubs.on =>
        \A p \in PlatformSet :
            ~pubs.lost[p] =>
                /\ pubs.count[p] <= 1
                /\ (pubs.count[p] = 1 /\ pc # WritePc(p)) => drive_status[1][p]

\* a later run on the pair: youtube, published and persisted by an earlier run,
\* is skipped, and tiktok, which failed before, is published now
C28_Witness ==
    /\ pubs.on
    /\ InItem
    /\ loaded["youtube"] /\ ~loaded["tiktok"]
    /\ Len(results) >= 2
    /\ IsSkip(results[1])
    /\ IsPublished(results[2])
    /\ pubs.count["youtube"] = 1 /\ ~pubs.lost["youtube"]
    /\ pubs.count["tiktok"] = 1 /\ ~pubs.lost["tiktok"]

\* C30: for the outcome lists the four publishers return under a configuration
\* made by loadConfig, isAllSuccess(results, isXEnabled) is equal to 'no outcome
\* has skipped=false and success=false': with X disabled the outcome of
\* uploadToX has skipped=true, so the X-disabled clause of isAllSuccess never
\* decides.
C30_XDisabledClauseRedundant ==
    /\ judged => (allSuccess <=> \A k \in 1..Len(results) : ~IsFailure(results[k]))
    /\ (InItem /\ ~config.isXEnabled) =>
            \A k \in 1..Len(results) : results[k].platform = "x" => results[k].skipped

C30_Witness ==
    /\ judged
    /\ allSuccess
    /\ ~config.isXEnabled
    /\ Len(results) = 4
    /\ results[4].platform = "x"
    /\ results[4].skipped /\ ~results[4].success
    /\ IsPublished(results[3])

\* C29: under repeated runs of main() with a fixed configuration, when every
\* Drive operation succeeds and each enabled platform's publisher succeeds in
\* some run in which it is attempted, the pair is finalized (both files in the
\* done folder) after finitely many runs; and once finalized it stays so, no
\* later fetchFilePairs returns it and nothing is published for it again.
C29_FinalizedPair == videoLoc[1] = "done" /\ jsonLoc[1] = "done"

C29_NeverAgain ==
    C29_FinalizedPair =>
        /\ C29_FinalizedPair'
        /\ pubs' = pubs
        /\ apiCalls' = apiCalls \/ apiCalls' = <<>>
        /\ filePairs' = filePairs \/ filePairs' = <<>>

C29_EventualFinalization == <>(C29_FinalizedPair) /\ [][C29_NeverAgain]_vars

\* a run started after the pair was finalized: fetchFilePairs returned no pair,
\* and each enabled platform was published once
C29_Witness ==
    /\ C29_FinalizedPair
    /\ pc = "finally"
    /\ idx = 0
    /\ config.loaded
    /\ \A p \in Enabled : pubs.count[p] = 1

====
